---- MODULE Spec2Model ----
(***************************************************************************)
(* A model of the simple-bedrock-connector request gateway                 *)
(* (src/lambda/handler.py).                                                *)
(*                                                                         *)
(* Python strings that the code inspects (startswith, slicing, the "in"    *)
(* test) are sequences of one-character strings, so that a prefix, a slice *)
(* or a membership test is computed and not assumed.  Python dicts read    *)
(* with .get / [] are records that carry the set of keys they hold         *)
(* ("keys"): a field outside that set is absent, whatever the record       *)
(* holds there.                                                            *)
(***************************************************************************)
EXTENDS Integers, Sequences, FiniteSets, TLC

\* ------------------------------------------------------------------------
\* Bounds of the model
\* ------------------------------------------------------------------------
\* The clock runs over 0..MaxTime.
MaxTime == 2
\* Model names tried on resolve_model: every string over NameAlphabet of
\* length at most MaxNameLen, besides the alias table's own keys and values.
MaxNameLen == 3

\* ------------------------------------------------------------------------
\* Strings
\* ------------------------------------------------------------------------
RECURSIVE Rep(_, _)
Rep(c, n) == IF n = 0 THEN <<>> ELSE <<c>> \o Rep(c, n - 1)

Min(a, b) == IF a < b THEN a ELSE b

\* s[:n]
Take(s, n) == SubSeq(s, 1, Min(n, Len(s)))

\* s[n:]
Drop(s, n) == SubSeq(s, n + 1, Len(s))

\* s.startswith(p)
StartsWith(s, p) == Len(s) >= Len(p) /\ SubSeq(s, 1, Len(p)) = p

\* c in s, for a one-character c
Contains(s, c) == \E i \in 1..Len(s) : s[i] = c

\* ------------------------------------------------------------------------
\* Module-level constants of handler.py
\* ------------------------------------------------------------------------
SECRET_PREFIX == <<"s","b","c","/","t","o","k","e","n","s","/">>

\* token[:12]
KeyLen == 12

\* "Bearer " and the slice auth_header[7:] that removes it
BearerPrefix == <<"B","e","a","r","e","r"," ">>
BearerLen == 7

Claude4Opus == <<"a","n","t","h","r","o","p","i","c",".","c","l","a","u","d","e","-","4","-","o","p","u","s","-","2","0","2","5","0","5","1","4","-","v","1",":","0">>
Claude4Sonnet == <<"a","n","t","h","r","o","p","i","c",".","c","l","a","u","d","e","-","4","-","s","o","n","n","e","t","-","2","0","2","5","0","5","1","4","-","v","1",":","0">>
Claude35Sonnet == <<"a","n","t","h","r","o","p","i","c",".","c","l","a","u","d","e","-","3","-","5","-","s","o","n","n","e","t","-","2","0","2","4","1","0","2","2","-","v","2",":","0">>
Claude35Haiku == <<"a","n","t","h","r","o","p","i","c",".","c","l","a","u","d","e","-","3","-","5","-","h","a","i","k","u","-","2","0","2","4","1","0","2","2","-","v","1",":","0">>
Llama33 == <<"m","e","t","a",".","l","l","a","m","a","3","-","3","-","7","0","b","-","i","n","s","t","r","u","c","t","-","v","1",":","0">>
Llama31 == <<"m","e","t","a",".","l","l","a","m","a","3","-","1","-","4","0","5","b","-","i","n","s","t","r","u","c","t","-","v","1",":","0">>
MistralLarge == <<"m","i","s","t","r","a","l",".","m","i","s","t","r","a","l","-","l","a","r","g","e","-","2","4","0","7","-","v","1",":","0">>

\* The alias table, as the set of its (key, value) entries.
MODEL_MAP ==
    { << <<"c","l","a","u","d","e","-","4","-","o","p","u","s">>, Claude4Opus >>,
      << <<"c","l","a","u","d","e","-","4","-","s","o","n","n","e","t">>, Claude4Sonnet >>,
      << <<"c","l","a","u","d","e","-","3",".","5","-","s","o","n","n","e","t">>, Claude35Sonnet >>,
      << <<"c","l","a","u","d","e","-","3",".","5","-","h","a","i","k","u">>, Claude35Haiku >>,
      << <<"l","l","a","m","a","-","3",".","3","-","7","0","b">>, Llama33 >>,
      << <<"l","l","a","m","a","-","3",".","1","-","4","0","5","b">>, Llama31 >>,
      << <<"m","i","s","t","r","a","l","-","l","a","r","g","e">>, MistralLarge >>,
      << <<"g","p","t","-","4">>, Claude4Sonnet >>,
      << <<"g","p","t","-","4","o">>, Claude4Sonnet >>,
      << <<"g","p","t","-","3",".","5","-","t","u","r","b","o">>, Claude35Haiku >> }

\* A bug the default could have: it is given by its alias.
DEFAULT_MODEL_alias == <<"c","l","a","u","d","e","-","4","-","s","o","n","n","e","t">>

DEFAULT_MODEL == Claude4Sonnet

\* The keys of MODEL_MAP
ModelKeys == { e[1] : e \in MODEL_MAP }

\* MODEL_MAP[k], for a key k
ModelValue(k) == (CHOOSE e \in MODEL_MAP : e[1] = k)[2]

\* A bug resolve_model could have: the namespace test runs before the table
\* lookup, so an alias that itself contains "." passes through.
resolve_model_dot_first(model_name) ==
    IF Contains(model_name, ".") THEN model_name
    ELSE IF model_name \in ModelKeys THEN ModelValue(model_name)
    ELSE DEFAULT_MODEL

\* MODEL_MAP.get(model_name, model_name if "." in model_name else DEFAULT_MODEL)
resolve_model(model_name) ==
    IF model_name \in ModelKeys THEN ModelValue(model_name)
    ELSE IF Contains(model_name, ".") THEN model_name
    ELSE DEFAULT_MODEL

\* ------------------------------------------------------------------------
\* Bearer tokens and the secret store (Secrets Manager)
\* ------------------------------------------------------------------------
\* Two tokens that share their first KeyLen characters, and a token shorter
\* than KeyLen.
TokA == Rep("a", KeyLen) \o <<"x">>
TokB == Rep("a", KeyLen) \o <<"y">>
TokS == <<"b">>
Tokens == {TokA, TokB, TokS}

\* f"{SECRET_PREFIX}{token[:12]}"
SecretName(token) == SECRET_PREFIX \o Take(token, KeyLen)

SecretNames == { SecretName(t) : t \in Tokens }

Times == 0..MaxTime

\* A stored ISO-8601 timestamp string: what datetime.fromisoformat makes of
\* it.  "aware" parses to the UTC instant t, "naive" parses to a datetime
\* without a time zone, "garbage" does not parse.
Stamp(t) == [form |-> "aware", t |-> t]

SecretFields == {"token", "identity", "created_at", "expires_at"}

\* The SecretString of a well-formed Secret Record.
SecretRecord(tok, exp) ==
    [json |-> "object", keys |-> SecretFields, token |-> tok,
     identity |-> "alice", created_at |-> Stamp(0), expires_at |-> Stamp(exp)]

WellFormedSecrets == { SecretRecord(tok, exp) : tok \in {TokA, TokS}, exp \in Times }

\* Malformed SecretStrings: text that is not JSON, JSON that is not an
\* object, an object that lacks one field, an expires_at that is no
\* ISO timestamp or has no time zone.
MalformedSecrets ==
    { [SecretRecord(<<>>, 0) EXCEPT !.json = j, !.keys = {}] : j \in {"invalid", "array"} }
    \cup { [SecretRecord(TokA, 1) EXCEPT !.keys = SecretFields \ {f}] : f \in SecretFields }
    \cup { [SecretRecord(TokA, 1) EXCEPT !.expires_at.form = f] : f \in {"naive", "garbage"} }

SecretStrings == WellFormedSecrets \cup MalformedSecrets

\* What secrets_client.get_secret_value(SecretId=name) can do: return the
\* stored SecretString, raise ClientError (ResourceNotFoundException when no
\* secret has that name; a service-side failure at any time), or fail below
\* the service level (no connection, a timeout), which botocore raises as
\* a BotoCoreError and not as a ClientError.
NoSecret == SecretRecord(<<>>, 0)

get_secret_value(st, name) ==
    (IF name \in DOMAIN st
        THEN { [kind |-> "ok", code |-> "", SecretString |-> st[name]] }
        ELSE { [kind |-> "ClientError", code |-> "ResourceNotFoundException",
                SecretString |-> NoSecret] })
    \cup { [kind |-> "ClientError", code |-> "InternalServiceError", SecretString |-> NoSecret],
           [kind |-> "BotoCoreError", code |-> "EndpointConnectionError", SecretString |-> NoSecret] }

\* The three ways validate_token ends.
NoIdentity == [identity |-> "", created_at |-> Stamp(0), expires_at |-> Stamp(0)]
ReturnNone == [res |-> "None", exc |-> "", value |-> NoIdentity]
Raise(e) == [res |-> "raise", exc |-> e, value |-> NoIdentity]
ReturnIdentity(s) ==
    [res |-> "identity", exc |-> "",
     value |-> [identity |-> s.identity, created_at |-> s.created_at,
                expires_at |-> s.expires_at]]

\* A bug the token comparison could have: only the KeyLen characters the
\* secret's name is derived from are compared.
TokenMismatchPrefixOnly(secret, token) ==
    \/ "token" \notin secret.keys
    \/ Take(secret.token, KeyLen) # Take(token, KeyLen)

\* secret.get("token") != token
TokenMismatch(secret, token) ==
    \/ "token" \notin secret.keys
    \/ secret.token # token

\* A bug the expiry test could have: a token is rejected at its expiry
\* instant already.
ExpiredAtExpiry(t, expires_at) == t >= expires_at

\* datetime.now(timezone.utc) > expires_at
Expired(t, expires_at) == t > expires_at

\* validate_token(token), given what the lookup answered and the time read.
validate_token(token, answer, t) ==
    IF answer.kind = "ClientError" THEN ReturnNone
    ELSE IF answer.kind # "ok" THEN Raise(answer.code)
    ELSE LET secret == answer.SecretString IN
        IF secret.json = "invalid" THEN Raise("JSONDecodeError")
        ELSE IF secret.json # "object" THEN Raise("AttributeError")
        ELSE IF TokenMismatch(secret, token) THEN ReturnNone
        ELSE IF "expires_at" \notin secret.keys THEN Raise("KeyError")
        ELSE IF secret.expires_at.form = "garbage" THEN Raise("ValueError")
        ELSE IF secret.expires_at.form = "naive" THEN Raise("TypeError")
        ELSE IF Expired(t, secret.expires_at.t) THEN ReturnNone
        ELSE IF "identity" \notin secret.keys THEN Raise("KeyError")
        ELSE IF "created_at" \notin secret.keys THEN Raise("KeyError")
        ELSE ReturnIdentity(secret)

\* ------------------------------------------------------------------------
\* The event: headers and body
\* ------------------------------------------------------------------------
\* A header value: a string, or JSON null.
HStr(s) == [t |-> "str", s |-> s]
HNull == [t |-> "null", s |-> <<>>]

BasicCredential == <<"B","a","s","i","c"," ","x">>

HeaderValues ==
    { HStr(BearerPrefix \o tok) : tok \in Tokens } \cup { HStr(BasicCredential), HNull }

HeaderKeys == {"authorization", "Authorization"}

\* event["headers"]: no such key, null, or a dict with any of the two keys
\* (with both, the canonical one carries a well-formed credential).
Headers(t, keys, lower, canonical) ==
    [t |-> t, keys |-> keys, authorization |-> lower, Authorization |-> canonical]

NoHeaders == Headers("absent", {}, HNull, HNull)

HeaderChoices ==
    { NoHeaders, Headers("null", {}, HNull, HNull) }
    \cup { Headers("dict", {}, HNull, HNull) }
    \cup { Headers("dict", {"authorization"}, v, HNull) : v \in HeaderValues }
    \cup { Headers("dict", {"Authorization"}, HNull, v) : v \in HeaderValues }
    \cup { Headers("dict", HeaderKeys, v, HStr(BearerPrefix \o TokA)) : v \in HeaderValues }

\* A chat message of the request body.
Msg(role, content) == [keys |-> {"role", "content"}, role |-> role, content |-> content]
MsgNoRole(content) == [keys |-> {"content"}, role |-> "", content |-> content]

\* body["model"]: a string, or a JSON value that is no string.
JStr(s) == [t |-> "str", s |-> s]
JNull == [t |-> "null", s |-> <<>>]

ModelChoices ==
    { JStr(<<"g","p","t","-","4">>),
      JStr(<<"c","l","a","u","d","e","-","3",".","5","-","h","a","i","k","u">>),
      JStr(<<"x",".","y">>),
      JStr(<<"z">>),
      JNull }

\* body["messages"]: a list of messages, or a JSON value that is no list.
JList(v) == [t |-> "list", v |-> v]
JNoList(t) == [t |-> t, v |-> <<>>]

MessageChoices ==
    { JList(<<>>),
      JList(<< Msg("user", "Hi") >>),
      JList(<< Msg("system", "Be terse."), Msg("user", "Hi") >>),
      JList(<< MsgNoRole("Hi"), Msg("tool", "42"), Msg("system", "") >>),
      JNoList("null") }

\* The inference parameters of the body, each present or not.
ParamKeys == {"max_tokens", "temperature", "top_p"}
ParamChoices == { {}, ParamKeys }

\* The JSON value of a body: an object, or a value that is no object.
BodyFields == {"model", "messages"} \cup ParamKeys

Object(keys, model, messages) ==
    [json |-> "object", keys |-> keys, model |-> model, messages |-> messages,
     max_tokens |-> "256", temperature |-> "0.2", top_p |-> "0.9"]

\* A bug the read of an inference parameter could have: body.get(k) or
\* default, which replaces a zero by the default.
GetParamOrDefault(body, k, default) ==
    IF k \in body.keys /\ body[k] # "0" THEN body[k] ELSE default

\* body.get(k, default) for an inference parameter k
GetParam(body, k, default) == IF k \in body.keys THEN body[k] ELSE default

EmptyObject == Object({}, JNull, JNoList("null"))

NonObject(j) == [EmptyObject EXCEPT !.json = j]

JsonValues ==
    { NonObject(j) : j \in {"array", "null"} }
    \cup { Object(ks \cup ps, IF "model" \in ks THEN m ELSE JNull,
                  IF "messages" \in ks THEN ms ELSE JNoList("null")) :
             ks \in SUBSET {"model", "messages"}, ps \in ParamChoices,
             m \in ModelChoices, ms \in MessageChoices }

\* event["body"]: no such key, null, or a string that is or is not JSON text.
Body(t, value) == [t |-> t, value |-> value]

NoBody == Body("absent", EmptyObject)

BodyChoices ==
    { NoBody, Body("null", EmptyObject), Body("notjson", EmptyObject) }
    \cup { Body("json", v) : v \in JsonValues }

\* json.loads(event.get("body", "{}")): the value, or the exception raised.
\* A missing key reads as the text "{}"; None is no text at all (TypeError);
\* text that is no JSON raises JSONDecodeError.
Parsed(value) == [exc |-> "", value |-> value]
ParseFailed(e) == [exc |-> e, value |-> EmptyObject]

json_loads_body(b) ==
    CASE b.t = "absent" -> Parsed(EmptyObject)
      [] b.t = "null" -> ParseFailed("TypeError")
      [] b.t = "notjson" -> ParseFailed("JSONDecodeError")
      [] OTHER -> Parsed(b.value)

\* body.get("model", "gpt-4o")
DefaultModelName == JStr(<<"g","p","t","-","4","o">>)
GetModel(body) == IF "model" \in body.keys THEN body.model ELSE DefaultModelName

\* body.get("messages", [])
GetMessages(body) == IF "messages" \in body.keys THEN body.messages ELSE JList(<<>>)

\* A bug the messages check could have: the test is "messages is None", so
\* an empty list goes on to the backend.
FalsyOnlyNone(messages) == messages.t # "list"

\* not messages: an empty list and null are falsy.
Falsy(messages) == messages.t # "list" \/ Len(messages.v) = 0

\* ------------------------------------------------------------------------
\* The backend (Bedrock Converse) and the two translators
\* ------------------------------------------------------------------------
\* A bug the role of a turn could have: the caller's role is passed on as
\* it is.
bedrock_role_unchanged(role) == role

\* bedrock_role, the role of a turn that is no system message.
bedrock_role(role) == IF role = "user" THEN "user" ELSE "assistant"

\* The loop of invoke_bedrock over messages[i..]: acc holds bedrock_messages
\* and system_prompts as built so far.
RECURSIVE ConvertFrom(_, _, _)
ConvertFrom(messages, i, acc) ==
    IF i > Len(messages) THEN acc
    ELSE LET msg == messages[i]
             role == IF "role" \in msg.keys THEN msg.role ELSE "user"
             content == IF "content" \in msg.keys THEN msg.content ELSE ""
         IN IF role = "system"
            THEN ConvertFrom(messages, i + 1,
                    [acc EXCEPT !.system_prompts = Append(@, [text |-> content])])
            ELSE ConvertFrom(messages, i + 1,
                    [acc EXCEPT !.bedrock_messages =
                        Append(@, [role |-> bedrock_role(role),
                                   content |-> << [text |-> content] >>])])

\* A bug the loop could have: a system message replaces the system prompt
\* collected so far, so only the last one is sent.
ConvertLastSystemOnly(messages) ==
    LET c == ConvertFrom(messages, 1, [bedrock_messages |-> <<>>, system_prompts |-> <<>>])
    IN [c EXCEPT !.system_prompts = IF @ = <<>> THEN <<>> ELSE << @[Len(@)] >>]

Convert(messages) ==
    ConvertFrom(messages, 1, [bedrock_messages |-> <<>>, system_prompts |-> <<>>])

\* A bug the keyword arguments could have: "system" is always sent, as an
\* empty list when there is no system message.
KwargsAlwaysSystem(model_id, messages, params) ==
    LET c == Convert(messages) IN
    [keys |-> {"modelId", "messages", "inferenceConfig", "system"},
     modelId |-> model_id,
     messages |-> c.bedrock_messages,
     inferenceConfig |-> [maxTokens |-> params.max_tokens,
                          temperature |-> params.temperature,
                          topP |-> params.top_p],
     system |-> c.system_prompts]

\* The keyword arguments of bedrock_client.converse(**kwargs).
Kwargs(model_id, messages, params) ==
    LET c == Convert(messages) IN
    [keys |-> {"modelId", "messages", "inferenceConfig"}
                \cup (IF c.system_prompts # <<>> THEN {"system"} ELSE {}),
     modelId |-> model_id,
     messages |-> c.bedrock_messages,
     inferenceConfig |-> [maxTokens |-> params.max_tokens,
                          temperature |-> params.temperature,
                          topP |-> params.top_p],
     system |-> c.system_prompts]

NoKwargs == Kwargs(<<>>, <<>>, [max_tokens |-> "", temperature |-> "", top_p |-> ""])

\* The params dict handler passes to invoke_bedrock.
Params(body) ==
    [max_tokens |-> GetParam(body, "max_tokens", "4096"),
     temperature |-> GetParam(body, "temperature", "0.7"),
     top_p |-> GetParam(body, "top_p", "1.0")]

\* A content block of output.message.content: with a text, or of another
\* kind (a tool use), which has none.
Block(text) == [keys |-> {"text"}, text |-> text]
BlockNoText == [keys |-> {"toolUse"}, text |-> <<>>]

\* A Converse response: the blocks of output.message.content, stopReason
\* and usage, each present or not; usage with the service's own total.
Usage(keys, i, o, t) ==
    [keys |-> keys, inputTokens |-> i, outputTokens |-> o, totalTokens |-> t]

BedrockResponse(keys, content, stopReason, usage) ==
    [keys |-> keys, content |-> content, stopReason |-> stopReason, usage |-> usage]

NoBedrockResponse == BedrockResponse({}, <<>>, "", Usage({}, 0, 0, 0))

BedrockResponses ==
    { NoBedrockResponse,
      BedrockResponse({"output", "stopReason", "usage"},
                      << Block(<<"H","i"," ">>), Block(<<"t","h","e","r","e">>) >>,
                      "max_tokens",
                      Usage({"inputTokens", "outputTokens", "totalTokens"}, 5, 3, 8)) }

\* What bedrock_client.converse can do: return a response, raise ClientError
\* with the service's error code, or fail below the service level, which
\* botocore raises as a BotoCoreError and not as a ClientError.
ConverseAnswer(kind, code, resp) == [kind |-> kind, code |-> code, response |-> resp]

NoAnswer == ConverseAnswer("", "", NoBedrockResponse)

converse ==
    { ConverseAnswer("ok", "", resp) : resp \in BedrockResponses }
    \cup { ConverseAnswer("ClientError", "ThrottlingException", NoBedrockResponse),
           ConverseAnswer("BotoCoreError", "ReadTimeoutError", NoBedrockResponse) }

\* A bug the join could have: the texts are joined with a newline between
\* them.
RECURSIVE JoinWithNewline(_)
JoinWithNewline(texts) ==
    IF texts = <<>> THEN <<>>
    ELSE IF Len(texts) = 1 THEN Head(texts)
    ELSE Head(texts) \o <<"\n">> \o JoinWithNewline(Tail(texts))

\* "".join(texts)
RECURSIVE Join(_)
Join(texts) == IF texts = <<>> THEN <<>> ELSE Head(texts) \o Join(Tail(texts))

\* A bug the mapping could have: a reason it does not name is passed on as
\* it is.
_map_stop_reason_passing_unknown(reason) ==
    CASE reason = "end_turn" -> "stop"
      [] reason = "max_tokens" -> "length"
      [] reason = "stop_sequence" -> "stop"
      [] reason = "content_filtered" -> "content_filter"
      [] OTHER -> reason

_map_stop_reason(reason) ==
    CASE reason = "end_turn" -> "stop"
      [] reason = "max_tokens" -> "length"
      [] reason = "stop_sequence" -> "stop"
      [] reason = "content_filtered" -> "content_filter"
      [] OTHER -> "stop"

UsageGet(usage, k) == IF k \in usage.keys THEN usage[k] ELSE 0

\* b.get("text", "") for each block b, in order
BlockText(b) == IF "text" \in b.keys THEN b.text ELSE <<>>
Texts(content_blocks) == [i \in 1..Len(content_blocks) |-> BlockText(content_blocks[i])]

\* A bug the translation could have: total_tokens is the total the backend
\* reports, when it reports one.
to_openai_response_copying_total(bedrock_response, model_name) ==
    LET content_blocks == IF "output" \in bedrock_response.keys
                          THEN bedrock_response.content ELSE <<>>
        usage == IF "usage" \in bedrock_response.keys
                 THEN bedrock_response.usage ELSE Usage({}, 0, 0, 0)
        stopReason == IF "stopReason" \in bedrock_response.keys
                      THEN bedrock_response.stopReason ELSE "end_turn"
    IN [object |-> "chat.completion",
        model |-> model_name,
        choices |-> << [index |-> 0,
                        message |-> [role |-> "assistant",
                                     content |-> Join(Texts(content_blocks))],
                        finish_reason |-> _map_stop_reason(stopReason)] >>,
        usage |-> [prompt_tokens |-> UsageGet(usage, "inputTokens"),
                   completion_tokens |-> UsageGet(usage, "outputTokens"),
                   total_tokens |-> IF "totalTokens" \in usage.keys
                                    THEN usage.totalTokens
                                    ELSE UsageGet(usage, "inputTokens")
                                         + UsageGet(usage, "outputTokens")]]

\* The Completion Response, without its id and created fields.
to_openai_response(bedrock_response, model_name) ==
    LET content_blocks == IF "output" \in bedrock_response.keys
                          THEN bedrock_response.content ELSE <<>>
        usage == IF "usage" \in bedrock_response.keys
                 THEN bedrock_response.usage ELSE Usage({}, 0, 0, 0)
        stopReason == IF "stopReason" \in bedrock_response.keys
                      THEN bedrock_response.stopReason ELSE "end_turn"
    IN [object |-> "chat.completion",
        model |-> model_name,
        choices |-> << [index |-> 0,
                        message |-> [role |-> "assistant", content |-> Join(Texts(content_blocks))],
                        finish_reason |-> _map_stop_reason(stopReason)] >>,
        usage |-> [prompt_tokens |-> UsageGet(usage, "inputTokens"),
                   completion_tokens |-> UsageGet(usage, "outputTokens"),
                   total_tokens |-> UsageGet(usage, "inputTokens")
                                    + UsageGet(usage, "outputTokens")]]

NoCompletion == to_openai_response(NoBedrockResponse, JNull)

\* ------------------------------------------------------------------------
\* The response envelope
\* ------------------------------------------------------------------------
\* {"error": {"message": ..., "type": ...}}; a message is the sequence of
\* the pieces it is formatted from.
Error(message, type) ==
    [kind |-> "error", message |-> message, type |-> type, completion |-> NoCompletion]

Completion(result) ==
    [kind |-> "completion", message |-> <<>>, type |-> "", completion |-> result]

\* response(status_code, body): body goes out as the JSON text of the dict.
response(status_code, body) ==
    [statusCode |-> status_code,
     headers |-> [ContentType |-> "application/json", AccessControlAllowOrigin |-> "*"],
     body |-> [json |-> body]]

NoResponse == [statusCode |-> 0,
               headers |-> [ContentType |-> "", AccessControlAllowOrigin |-> ""],
               body |-> [json |-> Error(<<>>, "")]]

\* ------------------------------------------------------------------------
\* State
\* ------------------------------------------------------------------------
\* store: the secrets of Secrets Manager, by name.
\* now:   the clock, as datetime.now last read it; a later reading is no
\*        earlier.
\* req:   per invocation of handler, its position (pc) and its locals.
\* name, resolved: the argument and the result of a call of resolve_model
\*        on its own.
\* args, out: the arguments of a call of invoke_bedrock or of
\*        to_openai_response on its own, and what the call produced: the
\*        keyword arguments handed to converse, or the dict returned.
VARIABLES store, now, req, name, resolved, args, out

vars == <<store, now, req, name, resolved, args, out>>

\* The invocations that may be in progress at once.
Reqs == {"r1", "r2"}

\* The stages of handler, in the order of its code.
Stages == <<"AuthExtract", "AuthValidate", "ParseBody", "ValidateFields",
            "ResolveModel", "Invoke", "Translate">>

\* The locals of an invocation that has read nothing yet.
Fresh(pc) ==
    [pc |-> pc, stages |-> <<>>,
     headers |-> NoHeaders, token |-> <<>>,
     lookups |-> 0, answer |-> [kind |-> "", code |-> "", SecretString |-> NoSecret],
     at |-> 0, identity |-> ReturnNone,
     event_body |-> NoBody, body |-> EmptyObject,
     model_name |-> JNull, messages |-> JNoList("null"), model_id |-> <<>>,
     invokes |-> 0, kwargs |-> NoKwargs, backend |-> NoAnswer,
     result |-> NoResponse, exc |-> ""]

\* handler returns resp.
Return(q, stage, resp) ==
    [q EXCEPT !.pc = "done", !.stages = Append(@, stage), !.result = resp]

\* An exception leaves handler uncaught.
Uncaught(q, stage, e) ==
    [q EXCEPT !.pc = "raised", !.stages = Append(@, stage), !.exc = e]

\* The stage is through; handler goes on with the next one.
Advance(q, stage, next) == [q EXCEPT !.pc = next, !.stages = Append(@, stage)]

Stores == UNION { [D -> SecretStrings] : D \in SUBSET SecretNames }

Init ==
    /\ store \in Stores
    /\ now = 0
    /\ req = [r \in Reqs |-> Fresh("idle")]
    /\ name = <<>>
    /\ resolved = <<>>
    /\ args = <<>>
    /\ out = <<>>

\* ------------------------------------------------------------------------
\* handler, stage by stage
\* ------------------------------------------------------------------------
\* The runtime calls handler(event, context).
Receive(r) ==
    /\ req[r].pc \in {"idle", "done", "raised"}
    /\ req' = [req EXCEPT ![r] = Fresh("AuthExtract")]
    /\ UNCHANGED <<store, now, name, resolved, args, out>>

\* headers.get("authorization", headers.get("Authorization", ""))
AuthHeader(headers) ==
    IF "authorization" \in headers.keys THEN headers.authorization
    ELSE IF "Authorization" \in headers.keys THEN headers.Authorization
    ELSE HStr(<<>>)

Unauthenticated ==
    response(401, Error(<<"Missing or invalid Authorization header">>, "auth_error"))

AuthExtract(r) ==
    /\ req[r].pc = "AuthExtract"
    /\ \E headers \in HeaderChoices :
         LET q == [req[r] EXCEPT !.headers = headers]
             auth_header == AuthHeader(headers)
         IN req' = [req EXCEPT ![r] =
              IF headers.t = "null" \/ auth_header.t = "null"
                THEN Uncaught(q, "AuthExtract", "AttributeError")
              ELSE IF ~ StartsWith(auth_header.s, BearerPrefix)
                THEN Return(q, "AuthExtract", Unauthenticated)
              ELSE Advance([q EXCEPT !.token = Drop(auth_header.s, BearerLen)],
                           "AuthExtract", "AuthValidate")]
    /\ UNCHANGED <<store, now, name, resolved, args, out>>

\* A bug the rejection could have: it is reported as a missing credential.
ForbiddenAs401 == response(401, Error(<<"Invalid or expired token">>, "auth_error"))

Forbidden == response(403, Error(<<"Invalid or expired token">>, "auth_error"))

\* A bug AuthValidate could have: a record found expired is deleted from the
\* store.
AuthValidatePurging(r) ==
    /\ req[r].pc = "AuthValidate"
    /\ \E answer \in get_secret_value(store, SecretName(req[r].token)), t \in now..MaxTime :
         LET identity == validate_token(req[r].token, answer, t)
             q == [req[r] EXCEPT !.lookups = @ + 1, !.answer = answer, !.at = t,
                                 !.identity = identity]
             purged == /\ answer.kind = "ok"
                       /\ answer.SecretString.json = "object"
                       /\ {"token", "expires_at"} \subseteq answer.SecretString.keys
                       /\ answer.SecretString.token = req[r].token
                       /\ answer.SecretString.expires_at.form = "aware"
                       /\ t > answer.SecretString.expires_at.t
         IN /\ now' = t
            /\ store' = IF purged
                        THEN [n \in DOMAIN store \ {SecretName(req[r].token)} |-> store[n]]
                        ELSE store
            /\ req' = [req EXCEPT ![r] =
                 IF identity.res = "raise" THEN Uncaught(q, "AuthValidate", identity.exc)
                 ELSE IF identity.res = "None" THEN Return(q, "AuthValidate", Forbidden)
                 ELSE Advance(q, "AuthValidate", "ParseBody")]
    /\ UNCHANGED <<name, resolved, args, out>>

\* A bug AuthValidate could have: the identity of the last successful
\* validation is kept in a module-level variable and used for the next
\* invocation that finds it set.
AuthValidateCached(r) ==
    /\ req[r].pc = "AuthValidate"
    /\ \E answer \in get_secret_value(store, SecretName(req[r].token)), t \in now..MaxTime :
         LET cached == { req[o].identity : o \in { o \in Reqs \ {r} :
                                                    req[o].identity.res = "identity" } }
             identity == IF cached # {} THEN CHOOSE i \in cached : TRUE
                         ELSE validate_token(req[r].token, answer, t)
             q == [req[r] EXCEPT !.lookups = @ + 1, !.answer = answer, !.at = t,
                                 !.identity = identity]
         IN /\ now' = t
            /\ req' = [req EXCEPT ![r] =
                 IF identity.res = "raise" THEN Uncaught(q, "AuthValidate", identity.exc)
                 ELSE IF identity.res = "None" THEN Return(q, "AuthValidate", Forbidden)
                 ELSE Advance(q, "AuthValidate", "ParseBody")]
    /\ UNCHANGED <<store, name, resolved, args, out>>

AuthValidate(r) ==
    /\ req[r].pc = "AuthValidate"
    /\ \E answer \in get_secret_value(store, SecretName(req[r].token)), t \in now..MaxTime :
         LET identity == validate_token(req[r].token, answer, t)
             q == [req[r] EXCEPT !.lookups = @ + 1, !.answer = answer, !.at = t,
                                 !.identity = identity]
         IN /\ now' = t
            /\ req' = [req EXCEPT ![r] =
                 IF identity.res = "raise" THEN Uncaught(q, "AuthValidate", identity.exc)
                 ELSE IF identity.res = "None" THEN Return(q, "AuthValidate", Forbidden)
                 ELSE Advance(q, "AuthValidate", "ParseBody")]
    /\ UNCHANGED <<store, name, resolved, args, out>>

InvalidJson == response(400, Error(<<"Invalid JSON body">>, "invalid_request_error"))

ParseBody(r) ==
    /\ req[r].pc = "ParseBody"
    /\ \E event_body \in BodyChoices :
         LET parsed == json_loads_body(event_body)
             q == [req[r] EXCEPT !.event_body = event_body, !.body = parsed.value]
         IN req' = [req EXCEPT ![r] =
              IF parsed.exc = "JSONDecodeError" THEN Return(q, "ParseBody", InvalidJson)
              ELSE IF parsed.exc # "" THEN Uncaught(q, "ParseBody", parsed.exc)
              ELSE Advance(q, "ParseBody", "ValidateFields")]
    /\ UNCHANGED <<store, now, name, resolved, args, out>>

MessagesRequired ==
    response(400, Error(<<"messages is required">>, "invalid_request_error"))

ValidateFields(r) ==
    /\ req[r].pc = "ValidateFields"
    /\ LET body == req[r].body
           q == [req[r] EXCEPT !.model_name = GetModel(body),
                               !.messages = GetMessages(body)]
       IN req' = [req EXCEPT ![r] =
            IF body.json # "object" THEN Uncaught(req[r], "ValidateFields", "AttributeError")
            ELSE IF Falsy(q.messages) THEN Return(q, "ValidateFields", MessagesRequired)
            ELSE Advance(q, "ValidateFields", "ResolveModel")]
    /\ UNCHANGED <<store, now, name, resolved, args, out>>

\* resolve_model(model_name), then the "request" log line.  A model that is
\* no string fails the test "." in model_name (TypeError).
ResolveModel(r) ==
    /\ req[r].pc = "ResolveModel"
    /\ req' = [req EXCEPT ![r] =
         IF req[r].model_name.t # "str" THEN Uncaught(req[r], "ResolveModel", "TypeError")
         ELSE Advance([req[r] EXCEPT !.model_id = resolve_model(req[r].model_name.s)],
                      "ResolveModel", "Invoke")]
    /\ UNCHANGED <<store, now, name, resolved, args, out>>

UpstreamError(error_code) ==
    response(502, Error(<<"Bedrock error: ", error_code>>, "api_error"))

\* A bug Invoke could have: a failed call is tried once more.
InvokeWithRetry(r) ==
    /\ req[r].pc = "Invoke"
    /\ \E answer \in converse :
         LET q == [req[r] EXCEPT
                     !.invokes = @ + 1,
                     !.kwargs = Kwargs(req[r].model_id, req[r].messages.v, Params(req[r].body)),
                     !.backend = answer]
         IN req' = [req EXCEPT ![r] =
              IF answer.kind = "ClientError" /\ q.invokes < 2 THEN q
              ELSE IF answer.kind = "ClientError"
                THEN Return(q, "Invoke", UpstreamError(answer.code))
              ELSE IF answer.kind # "ok" THEN Uncaught(q, "Invoke", answer.code)
              ELSE Advance(q, "Invoke", "Translate")]
    /\ UNCHANGED <<store, now, name, resolved, args, out>>

Invoke(r) ==
    /\ req[r].pc = "Invoke"
    /\ \E answer \in converse :
         LET q == [req[r] EXCEPT
                     !.invokes = @ + 1,
                     !.kwargs = Kwargs(req[r].model_id, req[r].messages.v, Params(req[r].body)),
                     !.backend = answer]
         IN req' = [req EXCEPT ![r] =
              IF answer.kind = "ClientError" THEN Return(q, "Invoke", UpstreamError(answer.code))
              ELSE IF answer.kind # "ok" THEN Uncaught(q, "Invoke", answer.code)
              ELSE Advance(q, "Invoke", "Translate")]
    /\ UNCHANGED <<store, now, name, resolved, args, out>>

\* A bug Translate could have: the response names the backend identifier
\* the model was resolved to.
TranslateEchoingModelId(r) ==
    /\ req[r].pc = "Translate"
    /\ req' = [req EXCEPT ![r] =
         Return(req[r], "Translate",
                response(200, Completion(to_openai_response(req[r].backend.response,
                                                            JStr(req[r].model_id)))))]
    /\ UNCHANGED <<store, now, name, resolved, args, out>>

\* to_openai_response, the "response" log line, and the 200.
Translate(r) ==
    /\ req[r].pc = "Translate"
    /\ req' = [req EXCEPT ![r] =
         Return(req[r], "Translate",
                response(200, Completion(to_openai_response(req[r].backend.response,
                                                            req[r].model_name))))]
    /\ UNCHANGED <<store, now, name, resolved, args, out>>

\* One invocation at a time: the runtime hands "r1" its next event when the
\* previous one is through.
Handle(r) ==
    \/ Receive(r)
    \/ AuthExtract(r)
    \/ AuthValidate(r)
    \/ ParseBody(r)
    \/ ValidateFields(r)
    \/ ResolveModel(r)
    \/ Invoke(r)
    \/ Translate(r)

Next == Handle("r1")

Spec == Init /\ [][Next]_vars

\* ------------------------------------------------------------------------
\* resolve_model on its own
\* ------------------------------------------------------------------------
NameAlphabet == {"a", "o", ".", "-", "4"}

Names ==
    UNION { [1..k -> NameAlphabet] : k \in 0..MaxNameLen }
    \cup ModelKeys
    \cup { e[2] : e \in MODEL_MAP }

InitResolve ==
    /\ store = [n \in {} |-> NoSecret]
    /\ now = 0
    /\ req = [r \in Reqs |-> Fresh("idle")]
    /\ name = <<>>
    /\ resolved = <<>>
    /\ args = <<>>
    /\ out = <<>>

\* A call resolve_model(n).
Resolve ==
    /\ \E n \in Names :
         /\ name' = n
         /\ resolved' = resolve_model(n)
    /\ UNCHANGED <<store, now, req, args, out>>

NextResolve == Resolve

SpecResolve == InitResolve /\ [][NextResolve]_vars

\* ------------------------------------------------------------------------
\* invoke_bedrock on its own, as handler calls it
\* ------------------------------------------------------------------------
MaxMessages == 3

MsgNoContent(role) == [keys |-> {"role"}, role |-> role, content |-> ""]

\* Roles a caller may send: the three known ones, and unrecognized ones.
Roles == {"user", "assistant", "system", "tool", ""}
Contents == {"a", ""}

MessageAlphabet ==
    { Msg(role, content) : role \in Roles, content \in Contents }
    \cup { MsgNoRole("b"), MsgNoContent("system") }

\* messages is not empty: handler has answered 400 otherwise.
MessageLists == UNION { [1..k -> MessageAlphabet] : k \in 1..MaxMessages }

\* The values a caller may give an inference parameter, zero among them.
ParamValues ==
    [max_tokens : {"256", "0"}, temperature : {"0.2", "0"}, top_p : {"0.9", "0"}]

\* The body with these messages and any of the inference parameters.
BodiesWith(messages) ==
    { [Object(ps \cup {"messages"}, JNull, JList(messages)) EXCEPT
          !.max_tokens = IF "max_tokens" \in ps THEN v.max_tokens ELSE @,
          !.temperature = IF "temperature" \in ps THEN v.temperature ELSE @,
          !.top_p = IF "top_p" \in ps THEN v.top_p ELSE @] :
        ps \in SUBSET ParamKeys, v \in ParamValues }

InitInvokeBedrock ==
    /\ store = [n \in {} |-> NoSecret]
    /\ now = 0
    /\ req = [r \in Reqs |-> Fresh("idle")]
    /\ name = <<>>
    /\ resolved = <<>>
    /\ args = <<>>
    /\ out = <<>>

\* handler's call invoke_bedrock(model_id, messages, {"max_tokens": ...}),
\* up to bedrock_client.converse(**kwargs).
InvokeBedrock ==
    /\ args = <<>>
    /\ \E messages \in MessageLists :
         \E body \in BodiesWith(messages) :
            /\ args' = [model_id |-> DEFAULT_MODEL, body |-> body]
            /\ out' = Kwargs(DEFAULT_MODEL, GetMessages(body).v, Params(body))
    /\ UNCHANGED <<store, now, req, name, resolved>>

NextInvokeBedrock == InvokeBedrock

SpecInvokeBedrock == InitInvokeBedrock /\ [][NextInvokeBedrock]_vars

\* ------------------------------------------------------------------------
\* to_openai_response on its own
\* ------------------------------------------------------------------------
MaxBlocks == 3
MaxTokens == 2

Fragments == { <<>>, <<"a">>, <<"a", "b">> }

BlockAlphabet == { Block(f) : f \in Fragments } \cup { BlockNoText }

ContentBlocks == UNION { [1..k -> BlockAlphabet] : k \in 0..MaxBlocks }

\* The stop reasons the mapping names, and two it does not.
StopReasons ==
    { "end_turn", "max_tokens", "stop_sequence", "content_filtered",
      "tool_use", "guardrail_intervened" }

UsageKeys == {"inputTokens", "outputTokens", "totalTokens"}

\* usage with any of its counts; the service's total need not be the sum of
\* the two (it counts cache reads too).
Counts(ks, k) == IF k \in ks THEN 0..MaxTokens ELSE {0}

Usages ==
    UNION { { Usage(ks, i, o, t) : i \in Counts(ks, "inputTokens"),
                                   o \in Counts(ks, "outputTokens"),
                                   t \in Counts(ks, "totalTokens") } :
            ks \in SUBSET UsageKeys }

ResponseKeys == {"output", "stopReason", "usage"}

\* What a response can hold under each key, when it has these keys.
BlocksOf(ks) == IF "output" \in ks THEN ContentBlocks ELSE { <<>> }
StopReasonsOf(ks) == IF "stopReason" \in ks THEN StopReasons ELSE { "" }
UsagesOf(ks) == IF "usage" \in ks THEN Usages ELSE { Usage({}, 0, 0, 0) }

InitTranslate ==
    /\ store = [n \in {} |-> NoSecret]
    /\ now = 0
    /\ req = [r \in Reqs |-> Fresh("idle")]
    /\ name = <<>>
    /\ resolved = <<>>
    /\ args = <<>>
    /\ out = <<>>

\* A call to_openai_response(bedrock_response, model_name).
ToOpenAI ==
    /\ args = <<>>
    /\ \E ks \in SUBSET ResponseKeys :
         \E blocks \in BlocksOf(ks), reason \in StopReasonsOf(ks), usage \in UsagesOf(ks) :
            LET bedrock_response == BedrockResponse(ks, blocks, reason, usage)
            IN /\ args' = [bedrock_response |-> bedrock_response,
                           model_name |-> DefaultModelName]
               /\ out' = to_openai_response(bedrock_response, DefaultModelName)
    /\ UNCHANGED <<store, now, req, name, resolved>>

NextTranslate == ToOpenAI

SpecTranslate == InitTranslate /\ [][NextTranslate]_vars

\* ------------------------------------------------------------------------
\* Invocations in progress at once
\* ------------------------------------------------------------------------
\* A store with one secret, which expires at time 1.
ConcurrentStore == [n \in {SecretName(TokA)} |-> SecretRecord(TokA, 1)]

InitConcurrent ==
    /\ store = ConcurrentStore
    /\ now = 0
    /\ req = [r \in Reqs |-> Fresh("idle")]
    /\ name = <<>>
    /\ resolved = <<>>
    /\ args = <<>>
    /\ out = <<>>

\* The events and the backend answers of these invocations: no credential,
\* the credential of the stored token or of one that shares its key; no body,
\* text that is no JSON, or a request for a completion.
ConcurrentHeaders ==
    { NoHeaders }
    \cup { Headers("dict", {"Authorization"}, HNull, HStr(BearerPrefix \o tok)) :
             tok \in {TokA, TokB} }

ConcurrentBodies ==
    { NoBody, Body("notjson", EmptyObject),
      Body("json", Object({"model", "messages"}, JStr(<<"z">>),
                          JList(<< Msg("user", "Hi") >>))),
      Body("json", Object({"messages"} \cup ParamKeys, JNull,
                          JList(<< Msg("system", "Be terse."), Msg("user", "Hi") >>))) }

ConcurrentAnswers == { NoAnswer } \cup converse

Within(q) ==
    /\ q.headers \in ConcurrentHeaders
    /\ q.event_body \in ConcurrentBodies
    /\ q.backend \in ConcurrentAnswers

\* A step of handler in invocation r, on these events and answers.
HandleWithin(r) ==
    \/ Receive(r) /\ Within(req'[r])
    \/ AuthExtract(r) /\ Within(req'[r])
    \/ AuthValidate(r) /\ Within(req'[r])
    \/ ParseBody(r) /\ Within(req'[r])
    \/ ValidateFields(r) /\ Within(req'[r])
    \/ ResolveModel(r) /\ Within(req'[r])
    \/ Invoke(r) /\ Within(req'[r])
    \/ Translate(r) /\ Within(req'[r])

\* Any invocation takes its next step.
NextConcurrent == \E r \in Reqs : HandleWithin(r)

SpecConcurrent == InitConcurrent /\ [][NextConcurrent]_vars

\* handler(event, context) run from its first line to its last on its own:
\* how it ends, given the event, what the secret store answers, the time
\* read and what the backend answers.
Returns(resp) == [pc |-> "done", result |-> resp, exc |-> ""]
Raises(e) == [pc |-> "raised", result |-> NoResponse, exc |-> e]

handler(headers, answer, t, event_body, backend) ==
    LET auth_header == AuthHeader(headers) IN
    IF headers.t = "null" \/ auth_header.t = "null" THEN Raises("AttributeError")
    ELSE IF ~ StartsWith(auth_header.s, BearerPrefix) THEN Returns(Unauthenticated)
    ELSE LET identity == validate_token(Drop(auth_header.s, BearerLen), answer, t) IN
    IF identity.res = "raise" THEN Raises(identity.exc)
    ELSE IF identity.res = "None" THEN Returns(Forbidden)
    ELSE LET parsed == json_loads_body(event_body)
             body == parsed.value
         IN
    IF parsed.exc = "JSONDecodeError" THEN Returns(InvalidJson)
    ELSE IF parsed.exc # "" THEN Raises(parsed.exc)
    ELSE IF body.json # "object" THEN Raises("AttributeError")
    ELSE IF Falsy(GetMessages(body)) THEN Returns(MessagesRequired)
    ELSE IF GetModel(body).t # "str" THEN Raises("TypeError")
    ELSE IF backend.kind = "ClientError" THEN Returns(UpstreamError(backend.code))
    ELSE IF backend.kind # "ok" THEN Raises(backend.code)
    ELSE Returns(response(200, Completion(to_openai_response(backend.response,
                                                             GetModel(body)))))

\* ------------------------------------------------------------------------
\* The token generator (src/scripts/generate_token.py): parse_ttl
\* ------------------------------------------------------------------------
MaxTtlLen == 3

\* The characters of a TTL argument: digits, the three units, a unit in
\* upper case, a letter that is no unit, and a sign.
TtlAlphabet == {"1", "2", "d", "h", "m", "D", "x", "-"}

TtlStrings == UNION { [1..k -> TtlAlphabet] : k \in 0..MaxTtlLen }

DigitValue(c) ==
    CASE c = "0" -> 0 [] c = "1" -> 1 [] c = "2" -> 2 [] c = "3" -> 3 [] c = "4" -> 4
      [] c = "5" -> 5 [] c = "6" -> 6 [] c = "7" -> 7 [] c = "8" -> 8 [] c = "9" -> 9

IsDigits(s) ==
    /\ Len(s) > 0
    /\ \A i \in 1..Len(s) : s[i] \in {"0", "1", "2", "3", "4", "5", "6", "7", "8", "9"}

RECURSIVE Decimal(_)
Decimal(s) ==
    IF s = <<>> THEN 0
    ELSE Decimal(SubSeq(s, 1, Len(s) - 1)) * 10 + DigitValue(s[Len(s)])

\* int(s) on a string over TtlAlphabet: digits, or "-" and digits, give the
\* number; anything else, the empty string included, raises ValueError.
int(s) ==
    IF IsDigits(s) THEN [ok |-> TRUE, value |-> Decimal(s)]
    ELSE IF Len(s) >= 2 /\ s[1] = "-" /\ IsDigits(Tail(s))
         THEN [ok |-> TRUE, value |-> 0 - Decimal(Tail(s))]
    ELSE [ok |-> FALSE, value |-> 0]

\* c.lower() for a character of TtlAlphabet
lower(c) == IF c = "D" THEN "d" ELSE c

\* A timedelta, in minutes.
timedelta(days, hours, minutes) == days * 1440 + hours * 60 + minutes

\* The two ways parse_ttl ends.
TtlReturn(delta) == [res |-> "timedelta", exc |-> "", delta |-> delta]
TtlRaise(e) == [res |-> "raise", exc |-> e, delta |-> 0]

\* ttl_str[-1] of the empty string raises IndexError; int is called before
\* the unit is looked at.
parse_ttl(ttl_str) ==
    IF Len(ttl_str) = 0 THEN TtlRaise("IndexError")
    ELSE LET unit == lower(ttl_str[Len(ttl_str)])
             value == int(SubSeq(ttl_str, 1, Len(ttl_str) - 1))
         IN IF ~ value.ok THEN TtlRaise("ValueError")
            ELSE IF unit = "d" THEN TtlReturn(timedelta(value.value, 0, 0))
            ELSE IF unit = "h" THEN TtlReturn(timedelta(0, value.value, 0))
            ELSE IF unit = "m" THEN TtlReturn(timedelta(0, 0, value.value))
            ELSE TtlRaise("ValueError")

InitParseTtl ==
    /\ store = [n \in {} |-> NoSecret]
    /\ now = 0
    /\ req = [r \in Reqs |-> Fresh("idle")]
    /\ name = <<>>
    /\ resolved = <<>>
    /\ args = <<>>
    /\ out = <<>>

\* A call parse_ttl(ttl_str).
ParseTtl ==
    /\ args = <<>>
    /\ \E ttl_str \in TtlStrings :
         /\ args' = [ttl_str |-> ttl_str]
         /\ out' = parse_ttl(ttl_str)
    /\ UNCHANGED <<store, now, req, name, resolved>>

SpecParseTtl == InitParseTtl /\ [][ParseTtl]_vars

\* ------------------------------------------------------------------------
\* The token generator: store_token
\* ------------------------------------------------------------------------
\* A TTL is 1..MaxTtl ticks of the clock.
MaxTtl == 1

Identities == {"alice", "bob"}

\* SECRET_PREFIX and token[:12] of generate_token.py
GeneratorSecretPrefix == <<"s","b","c","/","t","o","k","e","n","s","/">>
GeneratorKeyLen == 12

\* A bug the name of the secret could have: it is derived from the whole
\* token.
secret_name_of_whole_token(token) == GeneratorSecretPrefix \o token

\* secret_name = f"{SECRET_PREFIX}{token[:12]}"
secret_name(token) == GeneratorSecretPrefix \o Take(token, GeneratorKeyLen)

\* secret_value: json.dumps of the record; now.isoformat() of an aware
\* datetime is a timestamp string that parses back to the same instant.
secret_value(token, identity, t, ttl) ==
    [json |-> "object", keys |-> SecretFields \cup {"ttl_seconds"},
     token |-> token, identity |-> identity,
     created_at |-> Stamp(t), expires_at |-> Stamp(t + ttl), ttl_seconds |-> ttl]

\* What client.create_secret(Name=n, ...) can do: create the secret, raise
\* ClientError (ResourceExistsException when a secret has that name; a
\* service-side failure at any time), or fail below the service level.
create_secret(st, n) ==
    (IF n \in DOMAIN st
        THEN { [kind |-> "ClientError", code |-> "ResourceExistsException"] }
        ELSE { [kind |-> "ok", code |-> ""] })
    \cup { [kind |-> "ClientError", code |-> "InternalServiceError"],
           [kind |-> "BotoCoreError", code |-> "EndpointConnectionError"] }

\* The three ways store_token ends: its dict, sys.exit(1), an exception.
StoreReturn(n, t, expires_at) ==
    [res |-> "stored", code |-> "", secret_name |-> n, at |-> t,
     expires_at |-> Stamp(expires_at)]
StoreExit(code, n, t) ==
    [res |-> "exit", code |-> code, secret_name |-> n, at |-> t, expires_at |-> Stamp(0)]
StoreRaise(code, n, t) ==
    [res |-> "raise", code |-> code, secret_name |-> n, at |-> t, expires_at |-> Stamp(0)]

InitIssue ==
    /\ store = [n \in {} |-> NoSecret]
    /\ now = 0
    /\ req = [r \in Reqs |-> Fresh("idle")]
    /\ name = <<>>
    /\ resolved = <<>>
    /\ args = <<>>
    /\ out = <<>>

\* A call store_token(session, token, identity, ttl, region).
StoreToken ==
    /\ \E token \in Tokens, identity \in Identities, ttl \in 1..MaxTtl, t \in now..MaxTime :
         \E answer \in create_secret(store, secret_name(token)) :
            /\ now' = t
            /\ args' = [token |-> token, identity |-> identity, ttl |-> ttl]
            /\ store' = IF answer.kind = "ok"
                        THEN [n \in DOMAIN store \cup {secret_name(token)} |->
                                IF n = secret_name(token)
                                THEN secret_value(token, identity, t, ttl)
                                ELSE store[n]]
                        ELSE store
            /\ out' = IF answer.kind = "ok" THEN StoreReturn(secret_name(token), t, t + ttl)
                      ELSE IF answer.kind = "ClientError"
                        THEN StoreExit(answer.code, secret_name(token), t)
                      ELSE StoreRaise(answer.code, secret_name(token), t)
    /\ UNCHANGED <<req, name, resolved>>

SpecIssue == InitIssue /\ [][StoreToken]_vars

\* ------------------------------------------------------------------------
\* Properties
\* ------------------------------------------------------------------------
Ended(r) == req[r].pc \in {"done", "raised"}

\* The stage has run in invocation r.
Ran(r, stage) == \E i \in 1..Len(req[r].stages) : req[r].stages[i] = stage

Status(r) == req[r].result.statusCode
ErrorType(r) == req[r].result.body.json.type
ErrorMessage(r) == req[r].result.body.json.message

\* The request ended with the error envelope of this status, type and message.
EndedWithError(r, status, type, message) ==
    /\ req[r].pc = "done"
    /\ Status(r) = status
    /\ req[r].result.body.json.kind = "error"
    /\ ErrorType(r) = type
    /\ ErrorMessage(r) = message

\* C1: every invocation of handler ends by returning one response whose
\* status is one of 200, 400, 401, 403, 502, whose body is JSON and whose
\* headers carry Access-Control-Allow-Origin "*"; none ends by an uncaught
\* exception.
C1_AlwaysOneResponse ==
    \A r \in Reqs :
        /\ req[r].pc # "raised"
        /\ req[r].pc = "done" =>
             /\ Status(r) \in {200, 400, 401, 403, 502}
             /\ req[r].result.headers.AccessControlAllowOrigin = "*"
             /\ req[r].result.headers.ContentType = "application/json"

\* The lookup of invocation r was answered by the store: with the secret, or
\* with "no such secret".
Answered(r) ==
    /\ req[r].lookups = 1
    /\ \/ req[r].answer.kind = "ok"
       \/ req[r].answer.code = "ResourceNotFoundException"

\* A secret is stored under the name derived from r's token.
Stored(r) == SecretName(req[r].token) \in DOMAIN store
StoredSecret(r) == store[SecretName(req[r].token)]

\* The Secret Record s carries token tok, whole, and is not past its expiry
\* at time t.
ValidFor(s, tok, t) ==
    /\ s.json = "object"
    /\ s.keys = SecretFields
    /\ s.token = tok
    /\ s.expires_at.form = "aware"
    /\ t <= s.expires_at.t

\* C2: validate_token(T) returns an identity if and only if the record
\* stored under "sbc/tokens/" + T[:12] has a token field equal to the whole
\* of T and now <= expires_at; the identity is the record's; a token that
\* only shares its first 12 characters with the stored one is rejected.
C2_IdentityIffExactAndUnexpired ==
    \A r \in Reqs :
        /\ req[r].lookups = 1 /\ ~ Answered(r) => req[r].identity.res # "identity"
        /\ Answered(r) =>
             /\ req[r].identity.res = "identity"
                  <=> (Stored(r) /\ ValidFor(StoredSecret(r), req[r].token, req[r].at))
             /\ req[r].identity.res = "identity" =>
                  /\ req[r].identity.value.identity = StoredSecret(r).identity
                  /\ req[r].identity.value.expires_at = StoredSecret(r).expires_at
             /\ ( /\ Stored(r)
                  /\ "token" \in StoredSecret(r).keys
                  /\ StoredSecret(r).token # req[r].token
                  /\ Take(StoredSecret(r).token, KeyLen) = Take(req[r].token, KeyLen) )
                  => req[r].identity.res = "None"

\* C2 happens: an identity is returned at the very instant of the expiry,
\* for a token longer than the 12 characters of its key.
C2_Witness ==
    \E r \in Reqs :
        /\ Answered(r)
        /\ req[r].identity.res = "identity"
        /\ Len(req[r].token) > KeyLen
        /\ req[r].at = StoredSecret(r).expires_at.t
        /\ req[r].at > 0

\* The stored record is malformed: no JSON, or without one of its fields, or
\* with an expires_at that does not parse.
Malformed(s) ==
    \/ s.json = "invalid"
    \/ s.json = "object" /\ s.keys # SecretFields
    \/ s.json = "object" /\ s.expires_at.form = "garbage"

\* The record carries the presented token and is past its expiry at time t.
ExpiredFor(s, tok, t) ==
    /\ s.json = "object"
    /\ {"token", "expires_at"} \subseteq s.keys
    /\ s.token = tok
    /\ s.expires_at.form = "aware"
    /\ t > s.expires_at.t

\* C3: validate_token fails closed: on a lookup miss, on the store being
\* unavailable, on a malformed stored record and on now > expires_at it
\* returns None: no identity, and no exception.
C3_FailsClosed ==
    \A r \in Reqs :
        ( /\ req[r].lookups = 1
          /\ \/ req[r].answer.kind # "ok"
             \/ Malformed(req[r].answer.SecretString)
             \/ ExpiredFor(req[r].answer.SecretString, req[r].token, req[r].at) )
        => req[r].identity.res = "None"

\* C4: a request whose token the validator rejects (unknown, mismatching or
\* expired) ends with 403 "auth_error"; its body is never read or parsed and
\* the backend is never invoked for it.
C4_RejectedIs403 ==
    \A r \in Reqs :
        /\ ( /\ Answered(r)
             /\ \/ ~ Stored(r)
                \/ StoredSecret(r).json = "object"
                     /\ TokenMismatch(StoredSecret(r), req[r].token)
                \/ ExpiredFor(StoredSecret(r), req[r].token, req[r].at) )
           => req[r].identity.res = "None"
        /\ req[r].lookups = 1 /\ req[r].identity.res = "None" =>
             /\ EndedWithError(r, 403, "auth_error", <<"Invalid or expired token">>)
             /\ ~ Ran(r, "ParseBody")
             /\ req[r].event_body = NoBody
             /\ req[r].invokes = 0

\* C4 happens: a request with an expired token has been answered.
C4_Witness ==
    \E r \in Reqs :
        /\ Answered(r)
        /\ Stored(r)
        /\ ExpiredFor(StoredSecret(r), req[r].token, req[r].at)
        /\ req[r].pc = "done"
        /\ Status(r) = 403

\* The headers carry a value that starts with "Bearer " under one of the
\* two keys.
CarriesBearer(headers) ==
    /\ headers.t = "dict"
    /\ \E k \in headers.keys :
         headers[k].t = "str" /\ StartsWith(headers[k].s, BearerPrefix)

\* C5: a request is answered 401 "auth_error", with no lookup in the secret
\* store, if and only if it carries no header "authorization" or
\* "Authorization" whose value starts with "Bearer "; one that carries such
\* a value under either key is never answered 401.
C5_401IffNoBearer ==
    \A r \in Reqs :
        Ran(r, "AuthExtract") /\ req[r].pc # "raised" =>
            /\ (req[r].pc = "done" /\ Status(r) = 401) <=> ~ CarriesBearer(req[r].headers)
            /\ Status(r) = 401 =>
                 /\ ErrorType(r) = "auth_error"
                 /\ req[r].lookups = 0

\* The payload of invocation r is malformed: no JSON text, null, or JSON
\* that is no object.
MalformedPayload(r) ==
    \/ req[r].event_body.t \in {"notjson", "null"}
    \/ req[r].event_body.t = "json" /\ req[r].event_body.value.json # "object"

\* C6: for an authenticated request every malformed payload ends with 400
\* "invalid_request_error": text that is no JSON with the message
\* "Invalid JSON body"; an absent or null body, or JSON that is no object,
\* with a 400 as well.
C6_MalformedPayloadIs400 ==
    \A r \in Reqs :
        Ran(r, "ParseBody") /\ Ended(r) =>
            /\ req[r].event_body.t = "notjson" =>
                 EndedWithError(r, 400, "invalid_request_error", <<"Invalid JSON body">>)
            /\ req[r].event_body.t = "absent" =>
                 EndedWithError(r, 400, "invalid_request_error", <<"messages is required">>)
            /\ MalformedPayload(r) =>
                 /\ req[r].pc = "done"
                 /\ Status(r) = 400
                 /\ ErrorType(r) = "invalid_request_error"

\* The request got past ValidateFields.
PastValidateFields(r) ==
    /\ Ran(r, "ValidateFields")
    /\ req[r].pc = "ResolveModel" \/ Ran(r, "ResolveModel")

\* C7: for an authenticated request whose body parsed to an object, a
\* messages field that is absent or an empty list ends the request with 400
\* "invalid_request_error", "messages is required", the backend not invoked;
\* a non-empty list takes it past ValidateFields.
C7_MessagesRequired ==
    \A r \in Reqs :
        Ran(r, "ValidateFields") /\ req[r].body.json = "object" =>
            LET body == req[r].body IN
            /\ ( \/ "messages" \notin body.keys
                 \/ body.messages.t = "list" /\ Len(body.messages.v) = 0 )
               => /\ EndedWithError(r, 400, "invalid_request_error",
                                    <<"messages is required">>)
                  /\ req[r].invokes = 0
            /\ ( /\ "messages" \in body.keys
                 /\ body.messages.t = "list"
                 /\ Len(body.messages.v) > 0 )
               => PastValidateFields(r)

\* C7 happens: a body with "messages": [] has been refused.
C7_Witness ==
    \E r \in Reqs :
        /\ Ran(r, "ValidateFields")
        /\ "messages" \in req[r].body.keys
        /\ req[r].body.messages = JList(<<>>)
        /\ req[r].pc = "done"
        /\ Status(r) = 400

\* C8: once the backend has been called, any failure of the call ends the
\* request with 502 and an "api_error" envelope whose message carries the
\* backend's error code; a call that succeeds ends it with 200 and the
\* Completion Response.
C8_BackendFailureIs502 ==
    \A r \in Reqs :
        Ran(r, "Invoke") =>
            /\ req[r].backend.kind # "ok" =>
                 EndedWithError(r, 502, "api_error",
                                <<"Bedrock error: ", req[r].backend.code>>)
            /\ req[r].backend.kind = "ok" /\ Ended(r) =>
                 /\ req[r].pc = "done"
                 /\ Status(r) = 200
                 /\ req[r].result.body.json.kind = "completion"

\* stages is Stages cut after its first n elements.
IsPrefix(stages, n) ==
    /\ n <= Len(Stages)
    /\ Len(stages) = n
    /\ \A i \in 1..n : stages[i] = Stages[i]

\* C9: the stages of a request run in the order AuthExtract, AuthValidate,
\* ParseBody, ValidateFields, ResolveModel, Invoke, Translate, none twice and
\* none skipped; a stage that fails is the last one; the secret store is read
\* at most once and the backend invoked at most once; the backend is invoked
\* only after the lookup returned an identity, the body parsed to an object
\* and the message list is non-empty.
C9_StagesInOrder ==
    \A r \in Reqs :
        LET q == req[r] IN
        /\ IsPrefix(q.stages, Len(q.stages))
        /\ ~ Ended(r) /\ q.pc # "idle" =>
             Len(q.stages) < Len(Stages) /\ q.pc = Stages[Len(q.stages) + 1]
        /\ q.pc = "done" /\ Status(r) # 200 => Len(q.stages) < Len(Stages)
        /\ q.pc = "done" /\ Status(r) = 200 => Len(q.stages) = Len(Stages)
        /\ q.lookups = (IF Ran(r, "AuthValidate") THEN 1 ELSE 0)
        /\ q.invokes = (IF Ran(r, "Invoke") THEN 1 ELSE 0)
        /\ q.invokes > 0 =>
             /\ q.lookups = 1
             /\ q.identity.res = "identity"
             /\ q.event_body.t \in {"absent", "json"}
             /\ q.body.json = "object"
             /\ q.messages.t = "list"
             /\ Len(q.messages.v) > 0
             /\ q.kwargs.modelId = q.model_id

\* C9 happens: a request has ended at a failed backend call, its sixth
\* stage, after one lookup and one call of the backend.
C9_Witness ==
    \E r \in Reqs :
        /\ req[r].pc = "done"
        /\ Status(r) = 502
        /\ req[r].invokes = 1
        /\ req[r].lookups = 1
        /\ Len(req[r].stages) = 6

\* C10: resolve_model follows the three-tier policy: a key of the alias
\* table gives its table value, also when the alias contains "."; any other
\* name that contains "." is returned unchanged; every other name gives
\* "anthropic.claude-4-sonnet-20250514-v1:0".
C10_ThreeTiers ==
    resolved # <<>> =>
        /\ \A e \in MODEL_MAP : name = e[1] => resolved = e[2]
        /\ (\A e \in MODEL_MAP : name # e[1]) /\ Contains(name, ".") => resolved = name
        /\ (\A e \in MODEL_MAP : name # e[1]) /\ ~ Contains(name, ".") =>
             resolved = Claude4Sonnet

\* C10 happens: an alias that contains "." has been resolved through the
\* table.
C10_Witness ==
    /\ name = <<"c","l","a","u","d","e","-","3",".","5","-","s","o","n","n","e","t">>
    /\ resolved = Claude35Sonnet

\* C11: the ResolveModel stage never fails: for every request past
\* ValidateFields, whatever the body's model field is (absent, then "gpt-4o"
\* is used, or any JSON value), the stage yields a backend model identifier
\* and the request goes on to Invoke.
C11_ResolveModelNeverFails ==
    \A r \in Reqs :
        Ran(r, "ResolveModel") =>
            /\ req[r].model_id # <<>>
            /\ req[r].pc = "Invoke" \/ Ran(r, "Invoke")
            /\ "model" \notin req[r].body.keys =>
                 req[r].model_id = resolve_model(DefaultModelName.s)

\* The message is a system message; its content, as msg.get reads it.
IsSystem(msg) == "role" \in msg.keys /\ msg.role = "system"
IsTurn(msg) == ~ IsSystem(msg)
ContentOf(msg) == IF "content" \in msg.keys THEN msg.content ELSE ""

\* The messages handed to invoke_bedrock.
Given == GetMessages(args.body).v

\* C12: message translation partitions the input list without loss,
\* duplication or reordering: the system prompts sent are exactly the
\* contents of the role-"system" messages in input order, the turns are
\* exactly the other messages in input order with their content unchanged,
\* and system prompts plus turns are as many as the input messages.
C12_PartitionsMessages ==
    args # <<>> =>
        LET system == SelectSeq(Given, IsSystem)
            turns == SelectSeq(Given, IsTurn)
        IN /\ out.system = [i \in 1..Len(system) |-> [text |-> ContentOf(system[i])]]
           /\ Len(out.messages) = Len(turns)
           /\ \A i \in 1..Len(turns) :
                out.messages[i].content = << [text |-> ContentOf(turns[i])] >>
           /\ Len(out.system) + Len(out.messages) = Len(Given)

\* C12 happens: two system messages of different content around a turn have
\* been translated.
C12_Witness ==
    /\ args # <<>>
    /\ Given = << Msg("system", "a"), Msg("user", "a"), Msg("system", "") >>
    /\ out.system = << [text |-> "a"], [text |-> ""] >>
    /\ Len(out.messages) = 1

\* msg.get("role", "user")
RoleOf(msg) == IF "role" \in msg.keys THEN msg.role ELSE "user"

\* C13: every non-system message is emitted as a turn whose role is "user"
\* or "assistant": "user" gives "user", every other non-system role,
\* unrecognized ones included, gives "assistant"; whatever the roles are, the
\* call is built, with one turn per non-system message.
C13_RolesNormalised ==
    args # <<>> =>
        LET turns == SelectSeq(Given, IsTurn)
        IN /\ Len(out.messages) = Len(turns)
           /\ \A i \in 1..Len(turns) :
                /\ out.messages[i].role \in {"user", "assistant"}
                /\ RoleOf(turns[i]) = "user" => out.messages[i].role = "user"
                /\ RoleOf(turns[i]) # "user" => out.messages[i].role = "assistant"

\* C13 happens: messages of an unrecognized role, of an empty role and of
\* role "user" have been translated, in this order.
C13_Witness ==
    /\ args # <<>>
    /\ Given = << Msg("tool", "a"), Msg("", "a"), Msg("user", "a") >>
    /\ out.messages[1].role = "assistant"
    /\ out.messages[2].role = "assistant"
    /\ out.messages[3].role = "user"

\* C14: the call to the backend carries "system" if and only if the input
\* has at least one role-"system" message: without one the parameter is
\* omitted, never sent as an empty list; a system message of empty content
\* still gives a system parameter of one entry.
C14_SystemIffSystemMessage ==
    args # <<>> =>
        LET system == SelectSeq(Given, IsSystem)
        IN /\ "system" \in out.keys <=> \E i \in 1..Len(Given) : IsSystem(Given[i])
           /\ "system" \in out.keys => out.system # <<>>
           /\ Len(system) = 1 /\ ContentOf(system[1]) = "" =>
                /\ "system" \in out.keys
                /\ out.system = << [text |-> ""] >>

\* C14 happens: a call with one system message, of empty content, has been
\* built.
C14_Witness ==
    /\ args # <<>>
    /\ Given = << Msg("system", ""), Msg("user", "a") >>
    /\ "system" \in out.keys
    /\ out.system = << [text |-> ""] >>

\* The content blocks handed to to_openai_response, and the content it
\* gives for other blocks in the same response.
GivenBlocks == args.bedrock_response.content

ContentFor(blocks) ==
    to_openai_response([args.bedrock_response EXCEPT !.keys = @ \cup {"output"},
                                                     !.content = blocks],
                       args.model_name).choices[1].message.content

\* blocks with the text block i cut in two after its first k characters, and
\* with the text blocks i and i + 1 made one.
SplitAt(blocks, i, k) ==
    SubSeq(blocks, 1, i - 1)
    \o << Block(Take(blocks[i].text, k)), Block(Drop(blocks[i].text, k)) >>
    \o SubSeq(blocks, i + 1, Len(blocks))

MergeAt(blocks, i) ==
    SubSeq(blocks, 1, i - 1)
    \o << Block(blocks[i].text \o blocks[i + 1].text) >>
    \o SubSeq(blocks, i + 2, Len(blocks))

\* C15: the content of the response is the concatenation, in order and
\* without separators, of the text fragments of the backend result: empty for
\* no block, and for blocks B the content of B without its last block followed
\* by the text of the last; cutting one fragment in two adjacent ones, or
\* making two adjacent ones one, leaves the content unchanged.
C15_ContentIsConcatenation ==
    args # <<>> =>
        LET B == GivenBlocks
            content == out.choices[1].message.content
        IN /\ B = <<>> => content = <<>>
           /\ B # <<>> =>
                content = ContentFor(SubSeq(B, 1, Len(B) - 1)) \o BlockText(B[Len(B)])
           /\ \A i \in 1..Len(B) :
                "text" \in B[i].keys =>
                    \A k \in 0..Len(B[i].text) : ContentFor(SplitAt(B, i, k)) = content
           /\ \A i \in 1..(Len(B) - 1) :
                "text" \in B[i].keys /\ "text" \in B[i + 1].keys =>
                    ContentFor(MergeAt(B, i)) = content

\* C15 happens: a result of two text fragments around a block without text
\* has been translated.
C15_Witness ==
    /\ args # <<>>
    /\ GivenBlocks = << Block(<<"a", "b">>), BlockNoText, Block(<<"a">>) >>
    /\ out.choices[1].message.content = <<"a", "b", "a">>

\* C16: finish_reason is the mapping of the backend's stop reason:
\* "end_turn" and "stop_sequence" give "stop", "max_tokens" gives "length",
\* "content_filtered" gives "content_filter", every other value and a missing
\* stop reason give "stop".
C16_FinishReasonMapped ==
    args # <<>> =>
        LET given == args.bedrock_response
            finish_reason == out.choices[1].finish_reason
        IN /\ "stopReason" \notin given.keys => finish_reason = "stop"
           /\ "stopReason" \in given.keys =>
                /\ given.stopReason \in {"end_turn", "stop_sequence"} =>
                     finish_reason = "stop"
                /\ given.stopReason = "max_tokens" => finish_reason = "length"
                /\ given.stopReason = "content_filtered" =>
                     finish_reason = "content_filter"
                /\ given.stopReason \notin {"end_turn", "stop_sequence", "max_tokens",
                                            "content_filtered"} =>
                     finish_reason = "stop"

\* C16 happens: a result with a stop reason the mapping does not name has
\* been translated.
C16_Witness ==
    /\ args # <<>>
    /\ "stopReason" \in args.bedrock_response.keys
    /\ args.bedrock_response.stopReason = "guardrail_intervened"
    /\ out.choices[1].finish_reason = "stop"

\* The count the backend reports under key k of usage, 0 when usage or the
\* key is missing.
Reported(k) ==
    LET given == args.bedrock_response
    IN IF "usage" \in given.keys /\ k \in given.usage.keys THEN given.usage[k] ELSE 0

\* C17: total_tokens = prompt_tokens + completion_tokens, where prompt_tokens
\* and completion_tokens are the backend's input and output token counts,
\* each 0 when absent, whatever total the backend reports; all three are 0
\* when the backend reports no usage.
C17_TotalIsSum ==
    args # <<>> =>
        /\ out.usage.prompt_tokens = Reported("inputTokens")
        /\ out.usage.completion_tokens = Reported("outputTokens")
        /\ out.usage.total_tokens = out.usage.prompt_tokens + out.usage.completion_tokens
        /\ "usage" \notin args.bedrock_response.keys =>
             out.usage = [prompt_tokens |-> 0, completion_tokens |-> 0, total_tokens |-> 0]

\* C17 happens: a result that reports its input tokens, no output tokens,
\* and a total that is not their sum has been translated.
C17_Witness ==
    /\ args # <<>>
    /\ "usage" \in args.bedrock_response.keys
    /\ args.bedrock_response.usage.keys = {"inputTokens", "totalTokens"}
    /\ args.bedrock_response.usage.inputTokens = 1
    /\ args.bedrock_response.usage.totalTokens = 2
    /\ out.usage.total_tokens = 1

\* The model field of r's response.
EchoedModel(r) == req[r].result.body.json.completion.model

\* C18: the model field of every 200 response is the model name the caller
\* put in the request (the alias "gpt-4o" when the caller put none), not the
\* backend identifier it was resolved to, also when the alias table or the
\* default gave another identifier.
C18_ModelEchoed ==
    \A r \in Reqs :
        req[r].pc = "done" /\ Status(r) = 200 =>
            /\ "model" \in req[r].body.keys => EchoedModel(r) = req[r].body.model
            /\ "model" \notin req[r].body.keys => EchoedModel(r) = DefaultModelName
            /\ req[r].kwargs.modelId = resolve_model(EchoedModel(r).s)

\* C18 happens: a request for a model the default replaced has been answered
\* 200.
C18_Witness ==
    \E r \in Reqs :
        /\ req[r].pc = "done"
        /\ Status(r) = 200
        /\ "model" \in req[r].body.keys
        /\ req[r].body.model = JStr(<<"z">>)
        /\ req[r].kwargs.modelId = DEFAULT_MODEL
        /\ EchoedModel(r) = JStr(<<"z">>)

\* C19: each inference parameter reaches the backend independently of the
\* others: max_tokens, temperature and top_p of the caller are forwarded
\* unchanged as maxTokens, temperature and topP, and each one omitted takes
\* its default (4096, 0.7, 1.0), whatever the other two are.
C19_ParamsIndependent ==
    args # <<>> =>
        LET body == args.body
            config == out.inferenceConfig
        IN /\ config.maxTokens =
                (IF "max_tokens" \in body.keys THEN body.max_tokens ELSE "4096")
           /\ config.temperature =
                (IF "temperature" \in body.keys THEN body.temperature ELSE "0.7")
           /\ config.topP = (IF "top_p" \in body.keys THEN body.top_p ELSE "1.0")

\* C19 happens: a call with temperature 0 and neither max_tokens nor top_p
\* has been built.
C19_Witness ==
    /\ args # <<>>
    /\ args.body.keys \cap ParamKeys = {"temperature"}
    /\ args.body.temperature = "0"
    /\ out.inferenceConfig = [maxTokens |-> "4096", temperature |-> "0", topP |-> "1.0"]

\* How invocation r would end on its own, given the event it received and the
\* answers it got.
Alone(r) ==
    handler(req[r].headers, req[r].answer, req[r].at, req[r].event_body, req[r].backend)

\* C20: invocations in progress at once do not interfere: whatever the
\* interleaving of their steps, each one ends as it would on its own with the
\* same event, the same answer of the secret store to its own lookup and the
\* same answer of the backend; none writes the secret store.
C20_NoInterference ==
    /\ store = ConcurrentStore
    /\ \A r \in Reqs :
         /\ req[r].lookups = 1 =>
              req[r].answer \in get_secret_value(store, SecretName(req[r].token))
         /\ Ended(r) =>
              [pc |-> req[r].pc, result |-> req[r].result, exc |-> req[r].exc] = Alone(r)

\* C20 happens: "r1" has been answered 200 while "r2", which presented a
\* token of another caller before "r1" read the clock, is still in progress.
C20_Witness ==
    /\ req["r1"].pc = "done"
    /\ Status("r1") = 200
    /\ req["r1"].at = 1
    /\ req["r2"].pc = "AuthValidate"
    /\ req["r2"].token = TokB

\* C21: the request pipeline only reads the secret store: no step of any
\* request, accepted or rejected, with a valid, an invalid or an expired
\* token, creates, changes, extends or deletes a record.
C21_StoreOnlyRead == [][store' = store]_vars

\* C21 happens: a request whose token had expired has been rejected, and the
\* record is still in the store.
C21_Witness ==
    \E r \in Reqs :
        /\ req[r].pc = "done"
        /\ Status(r) = 403
        /\ Stored(r)
        /\ ExpiredFor(StoredSecret(r), req[r].token, req[r].at)
        /\ StoredSecret(r).expires_at.t > 0

\* ttl_str is "<n>" followed by the unit u, n a decimal integer.
IsTtlOf(ttl_str, u) ==
    /\ Len(ttl_str) >= 2
    /\ ttl_str[Len(ttl_str)] = u
    /\ int(SubSeq(ttl_str, 1, Len(ttl_str) - 1)).ok

TtlNumber(ttl_str) == int(SubSeq(ttl_str, 1, Len(ttl_str) - 1)).value

\* C22: parse_ttl maps "<n>d", "<n>h" and "<n>m" to n days, n hours and n
\* minutes, and for every other string (unknown unit, non-numeric value,
\* missing value, the empty string) it raises ValueError and returns no
\* duration.
C22_ParseTtl ==
    args # <<>> =>
        LET s == args.ttl_str IN
        /\ IsTtlOf(s, "d") => out = TtlReturn(TtlNumber(s) * 1440)
        /\ IsTtlOf(s, "h") => out = TtlReturn(TtlNumber(s) * 60)
        /\ IsTtlOf(s, "m") => out = TtlReturn(TtlNumber(s))
        /\ ~ (IsTtlOf(s, "d") \/ IsTtlOf(s, "h") \/ IsTtlOf(s, "m")) =>
             out = TtlRaise("ValueError")

\* What the validator makes at time t of token tok, when the store answers
\* its lookup.
Validated(tok, t) ==
    { validate_token(tok, answer, t) :
        answer \in { a \in get_secret_value(store, SecretName(tok)) : a.kind = "ok" } }

\* C23: issuer and validator agree on the record: after store_token(T,
\* identity, ttl) has stored its record, validate_token(T) returns that
\* identity at every time up to and including the stored expires_at and None
\* afterwards; a second token that shares the first 12 characters of a
\* stored one is not stored under the same key and never validates against
\* the record.
C23_IssuerAndValidatorAgree ==
    args # <<>> =>
        LET expires_at == out.at + args.ttl IN
        /\ out.res = "stored" =>
             /\ out.expires_at = Stamp(expires_at)
             /\ \A t \in out.at..MaxTime :
                  /\ Validated(args.token, t) # {}
                  /\ \A v \in Validated(args.token, t) :
                       /\ t <= expires_at =>
                            /\ v.res = "identity"
                            /\ v.value.identity = args.identity
                            /\ v.value.expires_at = Stamp(expires_at)
                       /\ t > expires_at => v = ReturnNone
        /\ \A tok \in Tokens, n \in DOMAIN store :
             n = SecretName(tok) /\ store[n].token # tok =>
                /\ \A t \in Times : Validated(tok, t) = { ReturnNone }
                /\ args.token = tok => out.res # "stored"

\* C23 happens: a token that shares its first 12 characters with a stored
\* one has been refused by the store, after the stored one had expired.
C23_Witness ==
    /\ args # <<>>
    /\ args.token = TokB
    /\ out.res = "exit"
    /\ out.code = "ResourceExistsException"
    /\ out.at = 2
    /\ store[SecretName(TokA)].token = TokA
    /\ store[SecretName(TokA)].identity = "bob"
    /\ store[SecretName(TokA)].expires_at = Stamp(1)

\* C24: resolve_model always yields a namespaced identifier and is
\* idempotent: resolve_model(name) contains "." and resolving it again gives
\* it back, every table value and the default containing "." and being no
\* alias key.
C24_ResolveIdempotent ==
    /\ \A e \in MODEL_MAP : Contains(e[2], ".") /\ e[2] \notin ModelKeys
    /\ Contains(DEFAULT_MODEL, ".") /\ DEFAULT_MODEL \notin ModelKeys
    /\ resolved # <<>> =>
         /\ Contains(resolved, ".")
         /\ resolve_model(resolved) = resolved

\* C24 happens: a name without "." that is no alias has been resolved, to
\* the default.
C24_Witness ==
    /\ name = <<"a", "-", "4">>
    /\ resolved = DEFAULT_MODEL
    /\ resolve_model(resolved) = DEFAULT_MODEL

====
